---- MODULE Spec2Model ----
(***************************************************************************)
(* Model of codeAgentFunction (src/src/inngest/functions.ts): one run of   *)
(* the coding-agent network.  The run creates a sandbox, loops             *)
(* router -> agent turn (model calls and tool calls) -> onResponse until   *)
(* the router halts or maxIter is reached, classifies the final state      *)
(* (isError), fetches the sandbox URL, persists one message and returns.   *)
(*                                                                         *)
(* Strings are sequences of tokens: "" is <<>>, concatenation is \o and    *)
(* String.includes is a contiguous sub-sequence search.  A JavaScript      *)
(* value that may be undefined is a pair of a presence flag and a value.   *)
(***************************************************************************)
EXTENDS Integers, Sequences, FiniteSets, TLC

VARIABLES
    pc,          \* position of the workflow function
    netState,    \* orchestrator state: RUNNING, HALTED_BY_ROUTER, HALTED_BY_LIMIT
    iter,        \* agent invocations completed by the network
    data,        \* network.state.data: hasSummary/summary, hasFiles/files
    sandboxId,   \* result of the get-sandbox-id step
    routerResult,\* last decision of the router
    toolCalls,   \* tool calls made in the current agent turn
    toolName,    \* name of the tool (and durable step) that ran last
    toolRun,     \* how the sandbox ran the last terminal command
    toolFiles,   \* the files argument of the last createOrUpdateFiles call
    stepResult,  \* what the last tool's step.run(...) returned
    toolResult,  \* what the last tool handler returned to the agent
    result,      \* the agent turn's result (output messages) given to onResponse
    isError,     \* the caller's classification of the final state
    sandboxUrl,  \* result of the get-sandbox-url step
    messages,    \* records persisted by prisma.message.create
    returned,    \* the workflow's return value
    journal,     \* values the run's durable steps recorded
    created,     \* sandboxes Sandbox.create has created
    connected,   \* sandbox the step that ran last asked getSandbox for
    otherRun     \* sandbox of another run of the function (0: none yet)

vars == <<pc, netState, iter, data, sandboxId, routerResult, toolCalls, toolName,
          toolRun, toolFiles, stepResult, toolResult, result, isError, sandboxUrl,
          messages, returned, journal, created, connected, otherRun>>

----------------------------------------------------------------------------
(* Bounds of the model *)

MaxBatchLen == 2     \* entries in one createOrUpdateFiles / readFiles call
MaxToolCalls == 2    \* tool calls the model requests within one agent turn
MaxOutputLen == 2    \* messages in one agent turn's output
MaxChunks == 2       \* stdout/stderr chunks one command emits

Paths == {"app/page.tsx", "lib/util.ts"}
Contents == {"v1", "v2"}
Texts == {<<>>,
          <<"Working on it">>,
          <<"<task_summary>", "Created the page", "</task_summary>">>,
          <<"All done. ", "<task_summary>", "Fixed the build", "</task_summary>">>}
ErrorNames == {"SandboxError", "CommandExitError"}

----------------------------------------------------------------------------
(* Program constants *)

(* mutant of maxIter: the cap is off by one *)
maxIterOffByOne == 15 + 1

maxIter == 15

Sentinel == <<"<task_summary>">>
GenericError == <<"Something went wrong. Please try again.">>
FragmentTitle == <<"Fragment">>

----------------------------------------------------------------------------
(* Values *)

NoFile == "<no file>"
FileMaps == [Paths -> Contents \cup {NoFile}]
EmptyMap == [p \in Paths |-> NoFile]
Keys(m) == {p \in Paths : m[p] # NoFile}

SeqsUpTo(S, n) == UNION {[1..k -> S] : k \in 0..n}

Entries == [path : Paths, content : Contents]
Batches == SeqsUpTo(Entries, MaxBatchLen)
PathLists == SeqsUpTo(Paths, MaxBatchLen)

TextMessage(t) == [type |-> "text", role |-> "assistant", content |-> t]
ToolCallMessage == [type |-> "tool_call", role |-> "assistant", content |-> <<>>]
OutputMessages == {ToolCallMessage} \cup {TextMessage(t) : t \in Texts}
Outputs == SeqsUpTo(OutputMessages, MaxOutputLen)

Undefined == [type |-> "undefined", str |-> <<>>, obj |-> EmptyMap]
Str(s) == [type |-> "string", str |-> s, obj |-> EmptyMap]
Obj(m) == [type |-> "object", str |-> <<>>, obj |-> m]

(* new network state: data = {} *)
InitData == [hasSummary |-> FALSE, summary |-> <<>>,
             hasFiles |-> FALSE, files |-> EmptyMap]

(* JavaScript truthiness of a string | undefined *)
Truthy(present, s) == present /\ Len(s) > 0

(* String.prototype.includes *)
Includes(s, needle) ==
    \E i \in 1..(Len(s) - Len(needle) + 1) :
        SubSeq(s, i, i + Len(needle) - 1) = needle

----------------------------------------------------------------------------
(* router: "halt" (return undefined) when summary is truthy, else codeAgent *)

(* mutant of router: the summary is not consulted *)
routerNeverHalts(d) == "code-agent"

(* mutant of router: files being there is taken for completion as well *)
routerHaltsOnFiles(d) ==
    IF Truthy(d.hasSummary, d.summary) \/ d.hasFiles THEN "halt" ELSE "code-agent"

(* mutant of router: halts only once files were produced as well *)
routerWaitsForFiles(d) ==
    IF Truthy(d.hasSummary, d.summary) /\ d.hasFiles THEN "halt" ELSE "code-agent"

router(d) ==
    IF Truthy(d.hasSummary, d.summary) THEN "halt" ELSE "code-agent"

----------------------------------------------------------------------------
(* lifecycle.onResponse *)

Max(S) == CHOOSE x \in S : \A y \in S : y <= x

(* the content of the last assistant text message of the result, if any *)
lastAssistantTextMessageContent(res) ==
    LET idx == {i \in 1..Len(res) :
                    res[i].role = "assistant" /\ res[i].type = "text"}
    IN  IF idx = {}
        THEN [found |-> FALSE, text |-> <<>>]
        ELSE [found |-> TRUE, text |-> res[Max(idx)].content]

(* mutant of onResponse: the sentinel test is dropped *)
onResponseAnyText(d, res) ==
    LET lastAssistantMessageText == lastAssistantTextMessageContent(res)
    IN  IF Truthy(lastAssistantMessageText.found, lastAssistantMessageText.text)
        THEN [d EXCEPT !.hasSummary = TRUE,
                       !.summary = lastAssistantMessageText.text]
        ELSE d

(* mutant of onResponse: the sentinel marker is stripped from the summary *)
onResponseStripsSentinel(d, res) ==
    LET lastAssistantMessageText == lastAssistantTextMessageContent(res)
        IsText(tok) == tok # "<task_summary>"
    IN  IF /\ Truthy(lastAssistantMessageText.found, lastAssistantMessageText.text)
           /\ Includes(lastAssistantMessageText.text, Sentinel)
        THEN [d EXCEPT !.hasSummary = TRUE,
                       !.summary = SelectSeq(lastAssistantMessageText.text, IsText)]
        ELSE d

(* return result *)
onResponseReturn(res) == res

onResponse(d, res) ==
    LET lastAssistantMessageText == lastAssistantTextMessageContent(res)
    IN  IF /\ Truthy(lastAssistantMessageText.found, lastAssistantMessageText.text)
           /\ Includes(lastAssistantMessageText.text, Sentinel)
        THEN [d EXCEPT !.hasSummary = TRUE,
                       !.summary = lastAssistantMessageText.text]
        ELSE d

----------------------------------------------------------------------------
(* createOrUpdateFiles.  A call is a batch `files` and how its step body   *)
(* ran: `written` entries were written to the sandbox and recorded, and    *)
(* then either the body threw (`threw`) or, having written them all,       *)
(* returned.                                                               *)

RECURSIVE ApplyEntries(_, _)
ApplyEntries(m, es) ==
    IF es = <<>> THEN m
    ELSE ApplyEntries([m EXCEPT ![Head(es).path] = Head(es).content], Tail(es))

WriteOutcomes(files) ==
    {[written |-> Len(files), threw |-> FALSE]}
        \cup {[written |-> 0, threw |-> TRUE]}
        \cup {[written |-> k, threw |-> TRUE] : k \in 0..(Len(files) - 1)}

(* const updatedFiles = network.state.data.files || {}: the state's own    *)
(* object when there is one, a fresh object otherwise                      *)
updatedFilesAliased(d) == d.hasFiles
updatedFilesStart(d) == IF d.hasFiles THEN d.files ELSE EmptyMap

(* the value step.run("createOrUpdateFiles", ...) returns *)
createOrUpdateFilesStep(d, files, o) ==
    IF o.threw
    THEN Str(<<"Error: ", "SandboxError">>)
    ELSE Obj(ApplyEntries(updatedFilesStart(d), SubSeq(files, 1, o.written)))

(* the state after the step body: updatedFiles[file.path] = file.content   *)
(* writes through to network.state.data.files when updatedFiles is it      *)
createOrUpdateFilesBody(d, files, o) ==
    IF updatedFilesAliased(d)
    THEN [d EXCEPT !.files = ApplyEntries(d.files, SubSeq(files, 1, o.written))]
    ELSE d

(* the state after the handler: newFiles is stored when it is an object *)
createOrUpdateFiles(d, files, o) ==
    LET newFiles == createOrUpdateFilesStep(d, files, o)
        after == createOrUpdateFilesBody(d, files, o)
    IN  IF newFiles.type = "object"
        THEN [after EXCEPT !.hasFiles = TRUE, !.files = newFiles.obj]
        ELSE after

(* the handler has no return statement *)
createOrUpdateFilesReturn(newFiles) == Undefined

----------------------------------------------------------------------------
(* terminal.  A command emits `chunks` (each on stdout or stderr); the     *)
(* run delivered `emitted` of them to the callbacks and then ended with    *)
(* `error`: "" when the command succeeded, "SandboxError" when getSandbox  *)
(* threw (nothing was emitted), "CommandExitError" when commands.run threw *)
(* (non-zero exit or a transport fault, after any number of chunks).       *)

Streams == {"stdout", "stderr"}
ChunkData(stream) == IF stream = "stdout" THEN "<out>" ELSE "<err>"

TerminalRuns ==
    {r \in [chunks : SeqsUpTo(Streams, MaxChunks),
            emitted : 0..MaxChunks,
            error : {""} \cup ErrorNames] :
        /\ r.emitted <= Len(r.chunks)
        /\ r.error = "" => r.emitted = Len(r.chunks)
        /\ r.error = "SandboxError" => r.chunks = <<>>}

RECURSIVE Collect(_, _)
Collect(chunks, stream) ==
    IF chunks = <<>> THEN <<>>
    ELSE (IF Head(chunks) = stream THEN <<ChunkData(stream)>> ELSE <<>>)
             \o Collect(Tail(chunks), stream)

(* buffers.stdout / buffers.stderr when the run ended *)
buffers(r) ==
    [stdout |-> Collect(SubSeq(r.chunks, 1, r.emitted), "stdout"),
     stderr |-> Collect(SubSeq(r.chunks, 1, r.emitted), "stderr")]

(* mutant of terminalStep: the catch block drops the captured output *)
terminalStepDropsBuffers(r) ==
    IF r.error = ""
    THEN Str(Collect(r.chunks, "stdout"))
    ELSE Str(<<"Command failed: ", r.error>>)

(* the value step.run("terminal", ...) returns *)
terminalStep(r) ==
    IF r.error = ""
    THEN Str(Collect(r.chunks, "stdout"))
    ELSE Str(<<"Command failed: ", r.error, " \nstdout: ">> \o buffers(r).stdout
                 \o <<"\nstderror: ">> \o buffers(r).stderr)

(* the handler returns the step's value; the state is not touched *)
terminalReturn(step) == step
terminal(d, r) == d

----------------------------------------------------------------------------
(* readFiles.  What the sandbox holds is its own business (the template, *)
(* earlier writes, whatever commands did): a read of `files` either throws *)
(* (`threw`: no connection, or a path that is not there) or yields         *)
(* `contents`, one content per path.                                       *)

ReadOutcomes(files) ==
    {[threw |-> TRUE, contents |-> <<>>]}
        \cup {[threw |-> FALSE, contents |-> c] : c \in [1..Len(files) -> Contents]}

RECURSIVE JSONStringify(_, _)
JSONStringify(files, contents) ==
    IF files = <<>> THEN <<>>
    ELSE <<"{path:", Head(files), "content:", Head(contents), "}">>
             \o JSONStringify(Tail(files), Tail(contents))

(* the value step.run("readFiles", ...) returns *)
readFilesStep(files, o) ==
    IF o.threw
    THEN Str(<<"Error: ", "SandboxError">>)
    ELSE Str(<<"[">> \o JSONStringify(files, o.contents) \o <<"]">>)

readFilesReturn(step) == step

(* mutant of readFiles: the handler initialises the state's file map *)
readFilesTouchesFiles(d, files) == [d EXCEPT !.hasFiles = TRUE]

(* the handler leaves the state alone *)
readFiles(d, files) == d

----------------------------------------------------------------------------
(* result aggregation by the caller *)

(* mutant of isErrorOf: only the files are consulted *)
isErrorOfFilesOnly(d) ==
    Cardinality(Keys(IF d.hasFiles THEN d.files ELSE EmptyMap)) = 0

(* mutant of isErrorOf: both conditions are required *)
isErrorOfBoth(d) ==
    /\ ~Truthy(d.hasSummary, d.summary)
    /\ Cardinality(Keys(IF d.hasFiles THEN d.files ELSE EmptyMap)) = 0

isErrorOf(d) ==
    \/ ~Truthy(d.hasSummary, d.summary)
    \/ Cardinality(Keys(IF d.hasFiles THEN d.files ELSE EmptyMap)) = 0

NoResult == [type |-> "none", str |-> <<>>, obj |-> EmptyMap]
NoRun == [chunks |-> <<>>, emitted |-> 0, error |-> ""]
NoUrl == <<>>

(* mutant of saveResult: the classification is not consulted *)
saveResultAlwaysResult(d, err, url) ==
    [content |-> d.summary, role |-> "ASSISTANT", type |-> "RESULT",
     hasFragment |-> TRUE, sandboxUrl |-> url, title |-> FragmentTitle,
     files |-> d.files]

(* the record prisma.message.create persists in the save-result step *)
saveResult(d, err, url) ==
    IF err
    THEN [content |-> GenericError, role |-> "ASSISTANT", type |-> "ERROR",
          hasFragment |-> FALSE, sandboxUrl |-> NoUrl, title |-> <<>>,
          files |-> EmptyMap]
    ELSE [content |-> d.summary, role |-> "ASSISTANT", type |-> "RESULT",
          hasFragment |-> TRUE, sandboxUrl |-> url, title |-> FragmentTitle,
          files |-> d.files]

(* the value the workflow function returns *)
returnValue(d, url) ==
    [sandboxUrl |-> url, title |-> FragmentTitle,
     hasFiles |-> d.hasFiles, files |-> d.files,
     hasSummary |-> d.hasSummary, summary |-> d.summary]

----------------------------------------------------------------------------
(* Durable steps.  step.run(name, fn) runs fn once and records its value   *)
(* in the run's journal; when the workflow function is invoked again the   *)
(* recorded value is returned and fn is not run.  The journal keeps, of    *)
(* the tool steps, what a replay needs: the last map a createOrUpdateFiles *)
(* step returned.                                                          *)

NoJournal == [sandboxId |-> 0, hasUrl |-> FALSE, sandboxUrl |-> NoUrl,
              saved |-> FALSE, hasFiles |-> FALSE, files |-> EmptyMap]

(* mutant of getSandboxIdStep: Sandbox.create is called outside step.run *)
getSandboxIdUnwrapped(j, c) == [value |-> c + 1, created |-> c + 1]

(* step.run("get-sandbox-id"): Sandbox.create(...).sandboxId; `c` sandboxes *)
(* exist and the new one is number c + 1                                   *)
getSandboxIdStep(j, c) ==
    IF j.sandboxId # 0
    THEN [value |-> j.sandboxId, created |-> c]
    ELSE [value |-> c + 1, created |-> c + 1]

(* step.run("get-sandbox-url"): `https://${sandbox.getHost(3000)}` *)
getSandboxUrlStep(j, id) ==
    IF j.hasUrl THEN j.sandboxUrl ELSE <<"https://", "3000-", ToString(id)>>

(* mutant of saveResultStep: prisma.message.create is called outside step.run *)
saveResultUnwrapped(j, msgs, record) == Append(msgs, record)

(* step.run("save-result"): prisma.message.create({ data: record }) *)
saveResultStep(j, msgs, record) ==
    IF j.saved THEN msgs ELSE Append(msgs, record)

(* the journal after a createOrUpdateFiles step returned newFiles *)
journalFiles(j, newFiles) ==
    IF newFiles.type = "object"
    THEN [j EXCEPT !.hasFiles = TRUE, !.files = newFiles.obj]
    ELSE j

(* the state a replay of the tool steps rebuilds: each createOrUpdateFiles *)
(* handler gets its recorded newFiles and stores it when it is an object   *)
replayFiles(d, j) == [d EXCEPT !.hasFiles = j.hasFiles, !.files = j.files]

----------------------------------------------------------------------------
(* The run *)

Init ==
    /\ pc = "get-sandbox-id"
    /\ netState = "RUNNING"
    /\ iter = 0
    /\ data = InitData
    /\ sandboxId = 0
    /\ routerResult = ""
    /\ toolCalls = 0
    /\ stepResult = NoResult
    /\ toolResult = NoResult
    /\ toolName = ""
    /\ toolRun = NoRun
    /\ toolFiles = <<>>
    /\ result = <<>>
    /\ isError = FALSE
    /\ sandboxUrl = NoUrl
    /\ messages = <<>>
    /\ returned = [done |-> FALSE, value |-> returnValue(InitData, NoUrl)]
    /\ journal = NoJournal
    /\ created = 0
    /\ connected = 0
    /\ otherRun = 0

(* const sandboxId = await step.run("get-sandbox-id", ...) *)
GetSandboxId ==
    /\ pc = "get-sandbox-id"
    /\ LET r == getSandboxIdStep(journal, created)
       IN  /\ sandboxId' = r.value
           /\ created' = r.created
           /\ journal' = [journal EXCEPT !.sandboxId = r.value]
    /\ pc' = "get-sandbox-id:done"
    /\ UNCHANGED <<netState, iter, data, routerResult, toolCalls,
                   toolName, toolRun, toolFiles, stepResult, toolResult, result, isError,
                   sandboxUrl, messages, returned, connected, otherRun>>

(* network.run: the loop goes on while fewer than maxIter agent            *)
(* invocations were made                                                   *)
NetworkContinue ==
    /\ pc = "network"
    /\ iter < maxIter
    /\ pc' = "router"
    /\ UNCHANGED <<netState, iter, data, sandboxId, routerResult,
                   toolCalls, toolName, toolRun, toolFiles, stepResult, toolResult, result, isError, sandboxUrl, messages, returned, journal, created,
                   connected, otherRun>>

NetworkLimit ==
    /\ pc = "network"
    /\ ~(iter < maxIter)
    /\ netState' = "HALTED_BY_LIMIT"
    /\ pc' = "is-error"
    /\ UNCHANGED <<iter, data, sandboxId, routerResult, toolCalls,
                   toolName, toolRun, toolFiles, stepResult, toolResult, result, isError,
                   sandboxUrl, messages, returned, journal, created, connected,
                   otherRun>>

(* the router is asked for the next agent *)
Router ==
    /\ pc = "router"
    /\ routerResult' = router(data)
    /\ IF routerResult' = "halt"
       THEN /\ netState' = "HALTED_BY_ROUTER"
            /\ pc' = "is-error"
       ELSE /\ netState' = netState
            /\ pc' = "infer"
    /\ toolCalls' = 0
    /\ UNCHANGED <<iter, data, sandboxId, toolName, toolRun, toolFiles, stepResult, toolResult,
                   result, isError, sandboxUrl, messages, returned,
                   journal, created, connected, otherRun>>

(* mutant of Terminal: the agent goes on without awaiting the handler *)
TerminalNotAwaited ==
    /\ pc = "infer"
    /\ toolCalls < MaxToolCalls
    /\ \E r \in TerminalRuns :
        /\ stepResult' = terminalStep(r)
        /\ toolResult' = terminalReturn(terminalStep(r))
        /\ data' = terminal(data, r)
        /\ toolRun' = r
    /\ toolFiles' = <<>>
    /\ toolName' = "terminal"
    /\ connected' = sandboxId
    /\ toolCalls' = toolCalls + 1
    /\ pc' = "infer"
    /\ UNCHANGED <<netState, iter, sandboxId, routerResult, result,
                   isError, sandboxUrl, messages, returned, journal,
                   created, otherRun>>

(* the model requests the terminal tool; the handler runs *)
Terminal ==
    /\ pc = "infer"
    /\ toolCalls < MaxToolCalls
    /\ \E r \in TerminalRuns :
        /\ stepResult' = terminalStep(r)
        /\ toolResult' = terminalReturn(terminalStep(r))
        /\ data' = terminal(data, r)
        /\ toolRun' = r
    /\ toolFiles' = <<>>
    /\ toolName' = "terminal"
    /\ connected' = sandboxId
    /\ toolCalls' = toolCalls + 1
    /\ pc' = "tool-result"
    /\ UNCHANGED <<netState, iter, sandboxId, routerResult, result,
                   isError, sandboxUrl, messages, returned, journal,
                   created, otherRun>>

(* the model requests createOrUpdateFiles; the handler runs *)
CreateOrUpdateFiles ==
    /\ pc = "infer"
    /\ toolCalls < MaxToolCalls
    /\ \E files \in Batches : \E o \in WriteOutcomes(files) :
        /\ stepResult' = createOrUpdateFilesStep(data, files, o)
        /\ toolResult' = createOrUpdateFilesReturn(stepResult')
        /\ data' = createOrUpdateFiles(data, files, o)
        /\ toolFiles' = files
    /\ journal' = journalFiles(journal, stepResult')
    /\ toolName' = "createOrUpdateFiles"
    /\ toolRun' = NoRun
    /\ connected' = sandboxId
    /\ toolCalls' = toolCalls + 1
    /\ pc' = "tool-result"
    /\ UNCHANGED <<netState, iter, sandboxId, routerResult, result, isError,
                   sandboxUrl, messages, returned, created, otherRun>>

(* the model requests readFiles; the handler runs *)
ReadFiles ==
    /\ pc = "infer"
    /\ toolCalls < MaxToolCalls
    /\ \E files \in PathLists : \E o \in ReadOutcomes(files) :
        /\ stepResult' = readFilesStep(files, o)
        /\ toolResult' = readFilesReturn(readFilesStep(files, o))
        /\ data' = readFiles(data, files)
    /\ toolName' = "readFiles"
    /\ toolRun' = NoRun
    /\ toolFiles' = <<>>
    /\ connected' = sandboxId
    /\ toolCalls' = toolCalls + 1
    /\ pc' = "tool-result"
    /\ UNCHANGED <<netState, iter, sandboxId, routerResult, result,
                   isError, sandboxUrl, messages, returned, journal,
                   created, otherRun>>

(* the tool's result is appended to the conversation and the model is      *)
(* called again                                                            *)
ToolResult ==
    /\ pc = "tool-result"
    /\ stepResult' = NoResult
    /\ toolResult' = NoResult
    /\ toolName' = ""
    /\ toolRun' = NoRun
    /\ toolFiles' = <<>>
    /\ connected' = 0
    /\ pc' = "infer"
    /\ UNCHANGED <<netState, iter, data, sandboxId, routerResult,
                   toolCalls, result, isError, sandboxUrl,
                   messages, returned, journal, created, otherRun>>

(* the model answers without tool calls: the turn's result is complete *)
AgentResult ==
    /\ pc = "infer"
    /\ \E out \in Outputs : result' = out
    /\ pc' = "on-response"
    /\ UNCHANGED <<netState, iter, data, sandboxId, routerResult,
                   toolCalls, toolName, toolRun, toolFiles, stepResult, toolResult, isError,
                   sandboxUrl, messages, returned, journal, created, connected,
                   otherRun>>

(* lifecycle.onResponse({ result, network }) *)
OnResponse ==
    /\ pc = "on-response"
    /\ data' = onResponse(data, result)
    /\ result' = onResponseReturn(result)
    /\ pc' = "agent-done"
    /\ UNCHANGED <<netState, iter, sandboxId, routerResult,
                   toolCalls, toolName, toolRun, toolFiles, stepResult, toolResult, isError, sandboxUrl, messages, returned, journal, created,
                   connected, otherRun>>

(* mutant of AgentDone: the network does not count the invocation *)
AgentDoneNoCount ==
    /\ pc = "agent-done"
    /\ iter' = iter
    /\ result' = <<>>
    /\ pc' = "network"
    /\ UNCHANGED <<netState, data, sandboxId, routerResult,
                   toolCalls, toolName, toolRun, toolFiles, stepResult, toolResult, isError,
                   sandboxUrl, messages, returned, journal, created, connected,
                   otherRun>>

(* the agent invocation returns to the network, which counts it *)
AgentDone ==
    /\ pc = "agent-done"
    /\ iter' = iter + 1
    /\ result' = <<>>
    /\ pc' = "network"
    /\ UNCHANGED <<netState, data, sandboxId, routerResult,
                   toolCalls, toolName, toolRun, toolFiles, stepResult, toolResult, isError,
                   sandboxUrl, messages, returned, journal, created, connected,
                   otherRun>>

(* const isError = !summary || Object.keys(files || {}).length === 0 *)
IsError ==
    /\ pc = "is-error"
    /\ isError' = isErrorOf(data)
    /\ pc' = "get-sandbox-url"
    /\ UNCHANGED <<netState, iter, data, sandboxId, routerResult,
                   toolCalls, toolName, toolRun, toolFiles, stepResult, toolResult, result, sandboxUrl, messages, returned, journal, created, connected,
                   otherRun>>

(* const sandboxUrl = await step.run("get-sandbox-url", ...) *)
GetSandboxUrl ==
    /\ pc = "get-sandbox-url"
    /\ sandboxUrl' = getSandboxUrlStep(journal, sandboxId)
    /\ journal' = [journal EXCEPT !.hasUrl = TRUE, !.sandboxUrl = sandboxUrl']
    /\ connected' = sandboxId
    /\ pc' = "get-sandbox-url:done"
    /\ UNCHANGED <<netState, iter, data, sandboxId, routerResult,
                   toolCalls, toolName, toolRun, toolFiles, stepResult, toolResult, result, isError, messages, returned, created, otherRun>>

(* await step.run("save-result", ...) *)
SaveResult ==
    /\ pc = "save-result"
    /\ messages' = saveResultStep(journal, messages,
                                  saveResult(data, isError, sandboxUrl))
    /\ journal' = [journal EXCEPT !.saved = TRUE]
    /\ pc' = "save-result:done"
    /\ UNCHANGED <<netState, iter, data, sandboxId, routerResult,
                   toolCalls, toolName, toolRun, toolFiles, stepResult, toolResult, result, isError, sandboxUrl, returned, created, connected, otherRun>>

StepBoundaries ==
    {"get-sandbox-id:done", "tool-result", "get-sandbox-url:done",
     "save-result:done"}
AfterStep(p) ==
    CASE p = "get-sandbox-id:done" -> "network"
      [] p = "tool-result" -> "infer"
      [] p = "get-sandbox-url:done" -> "save-result"
      [] p = "save-result:done" -> "return"
UrlKnown(p) == p \in {"get-sandbox-url:done", "save-result:done"}

(* a workflow-level step returns its value to the function, which goes on *)
StepReturns ==
    /\ pc \in StepBoundaries \ {"tool-result"}
    /\ connected' = 0
    /\ pc' = AfterStep(pc)
    /\ UNCHANGED <<netState, iter, data, sandboxId, routerResult,
                   toolCalls, toolName, toolRun, toolFiles, stepResult, toolResult, result, isError, sandboxUrl, messages, returned, journal, created,
                   otherRun>>

(* the workflow is suspended at a step and the function is invoked again:  *)
(* it runs from its first line with fresh memory, every step.run it meets  *)
(* returns the journal's value, the agents' recorded answers pass through  *)
(* router and onResponse as before, and it goes on after the step          *)
Resume ==
    /\ pc \in StepBoundaries
    /\ LET id == getSandboxIdStep(journal, created)
           d == replayFiles(data, journal)
           err == IF UrlKnown(pc) THEN isErrorOf(d) ELSE isError
           url == IF UrlKnown(pc) THEN getSandboxUrlStep(journal, id.value)
                  ELSE sandboxUrl
       IN  /\ sandboxId' = id.value
           /\ created' = id.created
           /\ data' = d
           /\ isError' = err
           /\ sandboxUrl' = url
           /\ messages' = IF pc = "save-result:done"
                          THEN saveResultStep(journal, messages,
                                              saveResult(d, err, url))
                          ELSE messages
    /\ stepResult' = NoResult
    /\ toolResult' = NoResult
    /\ toolName' = ""
    /\ toolRun' = NoRun
    /\ toolFiles' = <<>>
    /\ connected' = 0
    /\ pc' = AfterStep(pc)
    /\ UNCHANGED <<netState, iter, routerResult, toolCalls, result,
                   returned, journal, otherRun>>

Return ==
    /\ pc = "return"
    /\ returned' = [done |-> TRUE, value |-> returnValue(data, sandboxUrl)]
    /\ pc' = "done"
    /\ UNCHANGED <<netState, iter, data, sandboxId, routerResult,
                   toolCalls, toolName, toolRun, toolFiles, stepResult, toolResult, result, isError, sandboxUrl, messages, journal, created, connected,
                   otherRun>>

(* another run of the function starts: its own get-sandbox-id step, with   *)
(* its own journal, creates the next sandbox                               *)
OtherRun ==
    /\ pc = "done"
    /\ otherRun = 0
    /\ LET r == getSandboxIdStep(NoJournal, created)
       IN  /\ otherRun' = r.value
           /\ created' = r.created
    /\ UNCHANGED <<pc, netState, iter, data, sandboxId, routerResult,
                   toolCalls, toolName, toolRun, toolFiles, stepResult, toolResult, result,
                   isError, sandboxUrl, messages, returned, journal,
                   connected>>

Next ==
    \/ GetSandboxId
    \/ NetworkContinue
    \/ NetworkLimit
    \/ Router
    \/ Terminal
    \/ CreateOrUpdateFiles
    \/ ReadFiles
    \/ ToolResult
    \/ AgentResult
    \/ OnResponse
    \/ AgentDone
    \/ IsError
    \/ GetSandboxUrl
    \/ SaveResult
    \/ StepReturns
    \/ Resume
    \/ Return
    \/ OtherRun

Spec == Init /\ [][Next]_vars

(* every step, agent invocation and re-invocation eventually returns *)
FairSpec == Spec /\ WF_vars(Next)

----------------------------------------------------------------------------
(* Properties *)

SummaryPresent == data.hasSummary /\ data.summary # <<>>
FilesEmpty == \A p \in Paths : data.files[p] = NoFile
AfterLoop ==
    pc \in {"is-error", "get-sandbox-url", "get-sandbox-url:done", "save-result",
            "save-result:done", "return", "done"}
InAgent == pc \in {"infer", "tool-result", "on-response", "agent-done"}

\* C1: the router returns "halt" exactly when summary is present and
\* non-empty, returns the code agent in every other state (summary absent
\* or the empty string), and leaves Shared State unchanged.
C1_RouterHaltsIffSummary ==
    /\ [][pc = "router" =>
            /\ (routerResult' = "halt") <=> SummaryPresent
            /\ (routerResult' # "halt") => routerResult' = "code-agent"
            /\ (routerResult' = "halt") => pc' = "is-error"
            /\ (routerResult' = "code-agent") => pc' = "infer"
            /\ data' = data]_vars
    /\ [](\A s \in Texts, h \in BOOLEAN :
            (router([data EXCEPT !.hasSummary = h, !.summary = s]) = "halt")
                <=> (h /\ s # <<>>))

C1_Witness ==
    /\ routerResult = "halt"
    /\ SummaryPresent
    /\ iter > 1

\* C2: the agent is invoked at most 15 times; a run that leaves the loop
\* without a router halt has made 15 invocations and is HALTED_BY_LIMIT,
\* a run the router halted is HALTED_BY_ROUTER.
C2_IterationCap ==
    /\ iter <= 15
    /\ InAgent => iter < 15
    /\ (AfterLoop /\ routerResult # "halt")
            => (netState = "HALTED_BY_LIMIT" /\ iter = 15)
    /\ (AfterLoop /\ routerResult = "halt") => netState = "HALTED_BY_ROUTER"
    /\ ~AfterLoop => netState = "RUNNING"

C2_Witness ==
    /\ pc = "done"
    /\ netState = "HALTED_BY_LIMIT"
    /\ iter = 15

(* the turn's last text message exists and holds the sentinel *)
LastTextHasSentinel(res) ==
    \E i \in 1..Len(res) :
        /\ res[i].type = "text"
        /\ \A j \in (i + 1)..Len(res) : res[j].type # "text"
        /\ \E k \in 1..Len(res[i].content) : res[i].content[k] = "<task_summary>"

\* C3: onResponse sets summary if and only if the turn's last assistant text
\* message exists and contains "<task_summary>"; otherwise (no text message,
\* or no sentinel in it) Shared State is left unchanged.
C3_DetectorIffSentinel ==
    [][pc = "on-response" =>
        IF LastTextHasSentinel(result)
        THEN /\ data'.hasSummary
             /\ \E i \in 1..Len(result) :
                    /\ result[i].type = "text"
                    /\ \A j \in (i + 1)..Len(result) : result[j].type # "text"
                    /\ data'.summary = result[i].content
             /\ data'.files = data.files
             /\ data'.hasFiles = data.hasFiles
        ELSE data' = data]_vars

C3_Witness ==
    /\ pc = "agent-done"
    /\ data.hasSummary
    /\ Len(result) = 2
    /\ result[1].type = "text"
    /\ result[2].type = "tool_call"

\* C4: the run is classified as an error if and only if summary is absent or
\* files is empty, whichever terminal state the loop ended in.
C4_ErrorIffNoSummaryOrNoFiles ==
    (AfterLoop /\ pc # "is-error")
        => (isError <=> (~data.hasSummary \/ FilesEmpty))

C4_Witness ==
    /\ pc = "get-sandbox-url"
    /\ netState = "HALTED_BY_ROUTER"
    /\ data.hasSummary
    /\ FilesEmpty
    /\ isError

WriteStep == pc = "infer" /\ toolName' = "createOrUpdateFiles"

\* C5: files is the left fold of the batches onto the empty map, in call
\* order: files starts empty and every createOrUpdateFiles call takes it to
\* itself with the batch's entries applied in their order (a batch that
\* threw applies nothing), so the last write to a path wins and no path is
\* removed.
C5_FilesIsFoldOfBatches ==
    /\ (pc = "get-sandbox-id" => Keys(data.files) = {})
    /\ [][WriteStep =>
            data'.files = IF stepResult'.type = "object"
                          THEN ApplyEntries(data.files, toolFiles')
                          ELSE data.files]_vars

\* C6: a createOrUpdateFiles batch that throws, at any entry and whatever
\* files held before, leaves Shared State as it was, and the run continues.
C6_FailedBatchLeavesFiles ==
    [][(WriteStep /\ stepResult'.type = "string") =>
            /\ data' = data
            /\ pc' = "tool-result"
            /\ netState' = "RUNNING"]_vars

\* C7: every createOrUpdateFiles call delivers a tool result to the agent:
\* the full updated map when the batch succeeded, the error string when it
\* threw.
C7_WriteResultDelivered ==
    (pc = "tool-result" /\ toolName = "createOrUpdateFiles") =>
        /\ toolResult.type \in {"object", "string"}
        /\ toolResult = stepResult
        /\ toolResult.type = "object" => toolResult.obj = data.files

(* what the callbacks captured of one stream before the run ended *)
Captured(r, stream) ==
    LET seen == {i \in 1..r.emitted : r.chunks[i] = stream}
    IN  [i \in 1..Cardinality(seen) |-> ChunkData(stream)]

Emitted(r, stream) ==
    LET all == {i \in 1..Len(r.chunks) : r.chunks[i] = stream}
    IN  [i \in 1..Cardinality(all) |-> ChunkData(stream)]

\* C8: the terminal tool always returns a string to the agent: the
\* command's standard output on success, and on any failure the error with
\* the stdout and stderr captured up to the failure; the run goes on.
C8_TerminalNeverThrows ==
    (pc = "tool-result" /\ toolName = "terminal") =>
        /\ toolResult.type = "string"
        /\ netState = "RUNNING"
        /\ toolRun.error = "" => toolResult.str = Emitted(toolRun, "stdout")
        /\ toolRun.error # "" =>
              toolResult.str =
                  <<"Command failed: ", toolRun.error, " \nstdout: ">>
                      \o Captured(toolRun, "stdout")
                      \o <<"\nstderror: ">> \o Captured(toolRun, "stderr")

C8_Witness ==
    /\ pc = "tool-result"
    /\ toolName = "terminal"
    /\ toolRun.error = "CommandExitError"
    /\ toolRun.chunks = <<"stdout", "stderr">>
    /\ toolRun.emitted = 1

\* C9: summary starts absent; it is written only by onResponse, only while
\* absent, and only with the text of a message of the agent's result; once
\* present it is never unset and never changes.
C9_SummaryWrittenOnce ==
    /\ ~data.hasSummary
    /\ [][/\ data.hasSummary =>
                (data'.hasSummary /\ data'.summary = data.summary)
          /\ (data'.hasSummary # data.hasSummary \/ data'.summary # data.summary) =>
                /\ pc = "on-response"
                /\ ~data.hasSummary
                /\ data'.hasSummary
                /\ \E i \in 1..Len(result) :
                      /\ result[i].type = "text"
                      /\ result[i].role = "assistant"
                      /\ data'.summary = result[i].content]_vars

C9_Witness ==
    /\ pc = "done"
    /\ data.hasSummary
    /\ iter > 1

\* C10: files is changed only by the createOrUpdateFiles handler, when it
\* runs or when a re-invocation replays it; the terminal and readFiles
\* tools, onResponse, the router and the result aggregation leave it
\* unchanged, on success and on failure.
C10_OnlyWriteToolChangesFiles ==
    [][(data'.files # data.files \/ data'.hasFiles # data.hasFiles) =>
            (WriteStep \/ Resume)]_vars

C10_Witness ==
    /\ pc = "tool-result"
    /\ toolName = "readFiles"
    /\ stepResult = Str(<<"Error: ", "SandboxError">>)
    /\ ~FilesEmpty
    /\ iter > 0

Persisted == pc \in {"save-result:done", "return", "done"}

NoSentinelIn(res) ==
    \A i \in 1..Len(res) :
        \A k \in 1..Len(res[i].content) : res[i].content[k] # "<task_summary>"

\* C12: a run in which no agent turn emits the sentinel never gets a
\* summary; it leaves the loop only at the limit, after exactly 15 agent
\* invocations, is classified as an error and persists an ERROR record with
\* the fixed generic message, whatever files holds.
C12_NoSentinelEndsInError ==
    /\ [][/\ (pc = "on-response" /\ ~data.hasSummary /\ NoSentinelIn(result))
                => ~data'.hasSummary
          /\ (pc # "on-response" /\ ~data.hasSummary) => ~data'.hasSummary]_vars
    /\ []((AfterLoop /\ ~data.hasSummary) =>
            (iter = 15 /\ netState = "HALTED_BY_LIMIT"))
    /\ []((AfterLoop /\ pc # "is-error" /\ ~data.hasSummary) => isError)
    /\ []((Persisted /\ ~data.hasSummary) =>
            /\ Len(messages) = 1
            /\ messages[1].type = "ERROR"
            /\ messages[1].content = <<"Something went wrong. Please try again.">>
            /\ ~messages[1].hasFragment)

C12_Witness ==
    /\ pc = "done"
    /\ ~data.hasSummary
    /\ iter = 15
    /\ Keys(data.files) = Paths
    /\ messages[1].type = "ERROR"

(* a tool handler has been called and has not yet returned to the agent *)
ToolInFlight == toolName # ""

\* C13: iterations and tool calls are strictly sequential: a tool is called
\* only while none is in flight, the agent's turn and the next iteration
\* wait for the tool in flight, the iteration counter moves by one only when
\* the agent invocation has returned, and every change of Shared State is
\* the single handler or hook running at that moment (or a re-invocation).
C13_StrictlySequential ==
    /\ [](ToolInFlight => (pc = "tool-result" /\ InAgent))
    /\ [](pc \in {"network", "router"} => (~ToolInFlight /\ result = <<>>))
    /\ [][/\ (toolName' # "" /\ (toolName' # toolName \/ toolCalls' # toolCalls))
                => (~ToolInFlight /\ pc = "infer" /\ toolCalls' = toolCalls + 1)
          /\ iter' # iter =>
                /\ pc = "agent-done"
                /\ ~ToolInFlight
                /\ iter' = iter + 1
                /\ pc' = "network"
          /\ (pc = "router" /\ pc' = "infer") => (toolCalls' = 0 /\ ~ToolInFlight)
          /\ data' # data =>
                \/ pc = "infer" /\ toolName' = "createOrUpdateFiles"
                \/ pc = "on-response"
                \/ Resume]_vars

C13_Witness ==
    /\ pc = "tool-result"
    /\ ToolInFlight
    /\ toolCalls = 2
    /\ iter = 3
    /\ ~FilesEmpty

\* C14: whatever suspensions and re-invocations happen, the body of a step
\* that completed is not run again and its recorded value is what the
\* function gets: a re-invocation creates no sandbox, persists no record,
\* gets the recorded sandbox id and URL and the recorded file maps, and the
\* run creates at most one sandbox and persists at most one record.
C14_CompletedStepsNotRerun ==
    /\ [](created = (IF sandboxId # 0 THEN 1 ELSE 0)
                        + (IF otherRun # 0 THEN 1 ELSE 0))
    /\ [](Len(messages) <= 1)
    /\ [][/\ Resume =>
                /\ created' = created
                /\ messages' = messages
                /\ journal' = journal
                /\ sandboxId' = journal.sandboxId
                /\ sandboxId' = sandboxId
                /\ sandboxUrl' = sandboxUrl
                /\ journal.hasUrl => sandboxUrl' = journal.sandboxUrl
                /\ data'.hasFiles = journal.hasFiles
                /\ data'.files = journal.files
          /\ created' # created => (pc = "get-sandbox-id" \/ pc = "done")
          /\ messages' # messages => (pc = "save-result" /\ messages = <<>>)]_vars

C14_Witness ==
    /\ pc = "done"
    /\ created = 1
    /\ Len(messages) = 1
    /\ messages[1].type = "RESULT"
    /\ isError
    /\ returned.value.files # messages[1].files

Halted == netState \in {"HALTED_BY_ROUTER", "HALTED_BY_LIMIT"}
Completed ==
    /\ pc = "done"
    /\ returned.done
    /\ returned.value.files = data.files
    /\ returned.value.hasSummary = data.hasSummary
    /\ returned.value.summary = data.summary
    /\ Len(messages) = 1

\* C15: when every agent invocation and every step eventually returns, the
\* run eventually leaves RUNNING for HALTED_BY_ROUTER or HALTED_BY_LIMIT,
\* the only states the loop is left in, stays in that state, and ends up
\* completed for good: one record persisted and the final Shared State
\* returned, after a halt by the limit as after a halt by the router.
C15_RunTerminates ==
    /\ <>[](Halted /\ Completed)
    /\ [](Halted <=> AfterLoop)
    /\ [][netState # "RUNNING" => netState' = netState]_vars

C15_Witness ==
    /\ Completed
    /\ netState = "HALTED_BY_LIMIT"
    /\ returned.value.hasSummary
    /\ messages[1].type = "RESULT"

C17_SummaryVerbatim ==
    /\ [][/\ pc = "on-response" => result' = result
          /\ (pc = "on-response" /\ data'.hasSummary /\ ~data.hasSummary) =>
                \E i \in 1..Len(result) :
                    /\ result[i].type = "text"
                    /\ \A j \in (i + 1)..Len(result) : result[j].type # "text"
                    /\ data'.summary = result[i].content
                    /\ \E k \in 1..Len(data'.summary) :
                            data'.summary[k] = "<task_summary>"
          /\ data.hasSummary => data'.summary = data.summary]_vars
    /\ [](\A i \in 1..Len(messages) :
            messages[i].type = "RESULT" => messages[i].content = data.summary)
    /\ [](returned.done =>
            /\ returned.value.hasSummary = data.hasSummary
            /\ returned.value.summary = data.summary)

C17_Witness ==
    /\ pc = "done"
    /\ messages[1].type = "RESULT"
    /\ messages[1].content =
            <<"All done. ", "<task_summary>", "Fixed the build", "</task_summary>">>
    /\ returned.value.summary = messages[1].content

\* C18: once summary is set no agent is invoked and no tool runs again, files
\* never changes again, and the files persisted and returned are the files
\* the state held when the sentinel was detected.
C18_FilesFrozenOnceSummarySet ==
    [][data.hasSummary =>
            /\ pc' \notin {"infer", "tool-result", "on-response"}
            /\ toolName' = ""
            /\ iter' # iter => pc = "agent-done"
            /\ data'.files = data.files
            /\ data'.hasFiles = data.hasFiles
            /\ messages' # messages => messages'[1].files = data.files
            /\ returned' # returned => returned'.value.files = data.files]_vars

\* C19: in every reachable state HALTED_BY_ROUTER implies that summary is
\* present and HALTED_BY_LIMIT implies that exactly 15 agent invocations
\* were made: no router halt without a summary, no early halt by the limit.
C19_HaltReasons ==
    /\ netState \in {"RUNNING", "HALTED_BY_ROUTER", "HALTED_BY_LIMIT"}
    /\ netState = "HALTED_BY_ROUTER" => (data.hasSummary /\ data.summary # <<>>)
    /\ netState = "HALTED_BY_LIMIT" => iter = 15

C19_Witness ==
    /\ netState = "HALTED_BY_LIMIT"
    /\ data.hasSummary
    /\ FilesEmpty
    /\ pc = "is-error"

\* C20: a re-invocation, which gets the recorded value of every
\* createOrUpdateFiles step instead of running its body, rebuilds the Shared
\* State (files and summary) the uninterrupted execution holds at that
\* point, also when a batch failed mid-way.
C20_ReplayRebuildsState ==
    [][Resume =>
            /\ data'.hasFiles = data.hasFiles
            /\ data'.files = data.files
            /\ data'.hasSummary = data.hasSummary
            /\ data'.summary = data.summary]_vars

====
